---- MODULE Spec2Model ----
(***************************************************************************)
(* History-log reader of the System Monitor HTTP server (src/server.py).   *)
(*                                                                         *)
(* A text is a sequence of characters, each character a one-element        *)
(* string token.  JSON values are records [t, v]:                          *)
(*   [t |-> "num", v |-> digits]      [t |-> "str", v |-> characters]      *)
(*   [t |-> "arr", v |-> values]      [t |-> "obj", v |-> <<[k, val]>>]    *)
(* Indices into a text are Python's (0-based).                             *)
(***************************************************************************)
EXTENDS Integers, Sequences, FiniteSets, TLC

VARIABLES
    log,     \* the chunks the producer has written to the history log, in order
    file,    \* the content of HISTORY_PATH, or Absent
    resp,    \* the last response of the HTTP handler
    pc,      \* position of a parse_history_objects call that is stepped through
    n,       \* its max_items
    text,    \* its stripped text
    idx,     \* its scan cursor
    items,   \* its items
    starts   \* where each of its items began in text

vars == <<log, file, resp, pc, n, text, idx, items, starts>>

(***************************************************************************)
(* Characters.                                                             *)
(***************************************************************************)
Q == "\""
BS == "\\"
NL == "\n"
\* U+2028 LINE SEPARATOR: str.isspace() and a str.splitlines() boundary, but
\* neither JSON whitespace nor a JSON control character.
LS == "LS"
SP == " "

Digits == {"1", "2"}
\* json.decoder.WHITESPACE: " \t\n\r"
JsonWs == {SP, NL}
\* characters c with c.isspace()
PyWs == {SP, NL, LS}
\* str.splitlines() boundaries
LineBreaks == {NL, LS}
\* json.decoder STRINGCHUNK terminators other than the quote and backslash: [\x00-\x1f]
ControlChars == {NL}

\* s[i:i+1]
At(s, i) == IF i >= 0 /\ i < Len(s) THEN s[i + 1] ELSE ""

\* s[a:b]
Slice(s, a, b) == IF b <= a THEN <<>> ELSE SubSeq(s, a + 1, b)

\* faulty variant of TakeLast: s[:k], the oldest k instead of the newest
TakeFirst(s, k) == IF Len(s) <= k THEN s ELSE SubSeq(s, 1, k)

\* s[-k:] for k >= 1
TakeLast(s, k) == IF Len(s) <= k THEN s ELSE SubSeq(s, Len(s) - k + 1, Len(s))

Min(a, b) == IF a <= b THEN a ELSE b

(***************************************************************************)
(* str.strip() and str.splitlines()                                        *)
(***************************************************************************)
RECURSIVE LStripFrom(_, _)
LStripFrom(s, i) ==
    IF i < Len(s) /\ At(s, i) \in PyWs THEN LStripFrom(s, i + 1) ELSE i

RECURSIVE RStripFrom(_, _)
RStripFrom(s, e) ==
    IF e > 0 /\ At(s, e - 1) \in PyWs THEN RStripFrom(s, e - 1) ELSE e

Strip(s) ==
    LET a == LStripFrom(s, 0)
        e == RStripFrom(s, Len(s))
    IN  Slice(s, a, e)

RECURSIVE SplitFrom(_, _, _, _)
\* the lines of s[i:], cur being the line read so far
SplitFrom(s, i, cur, acc) ==
    IF i >= Len(s)
    THEN IF cur = <<>> THEN acc ELSE Append(acc, cur)
    ELSE IF At(s, i) \in LineBreaks
         THEN SplitFrom(s, i + 1, <<>>, Append(acc, cur))
         ELSE SplitFrom(s, i + 1, Append(cur, At(s, i)), acc)

SplitLines(s) == SplitFrom(s, 0, <<>>, <<>>)

(***************************************************************************)
(* json.JSONDecoder (strict): scan_once, JSONObject, JSONArray, scanstring *)
(***************************************************************************)
DecodeError == [ok |-> FALSE, val |-> <<>>, end |-> 0]
Decoded(val, end) == [ok |-> TRUE, val |-> val, end |-> end]

RECURSIVE SkipWs(_, _)
\* WHITESPACE.match(s, i).end()
SkipWs(s, i) == IF At(s, i) \in JsonWs THEN SkipWs(s, i + 1) ELSE i

RECURSIVE ScanString(_, _, _)
\* py_scanstring(s, i, strict=True), i just after the opening quote
ScanString(s, i, acc) ==
    LET c == At(s, i) IN
    IF c = "" THEN DecodeError
    ELSE IF c = Q THEN Decoded(acc, i + 1)
    ELSE IF c \in ControlChars THEN DecodeError
    ELSE IF c = BS
         THEN LET esc == At(s, i + 1) IN
              IF esc = Q THEN ScanString(s, i + 2, Append(acc, Q))
              ELSE IF esc = BS THEN ScanString(s, i + 2, Append(acc, BS))
              ELSE IF esc = "n" THEN ScanString(s, i + 2, Append(acc, NL))
              ELSE DecodeError
         ELSE ScanString(s, i + 1, Append(acc, c))

RECURSIVE NumberEnd(_, _)
\* NUMBER_RE.match(s, i).end() over the digits of the alphabet
NumberEnd(s, i) == IF At(s, i) \in Digits THEN NumberEnd(s, i + 1) ELSE i

RECURSIVE SetKey(_, _, _, _)
\* dict item assignment: a repeated key keeps its place and takes the new value
SetKey(pairs, k, val, i) ==
    IF i > Len(pairs) THEN Append(pairs, [k |-> k, val |-> val])
    ELSE IF pairs[i].k = k
         THEN [pairs EXCEPT ![i] = [k |-> k, val |-> val]]
         ELSE SetKey(pairs, k, val, i + 1)

RECURSIVE ScanOnce(_, _), ObjMembers(_, _, _), ArrElems(_, _, _)

\* JSONObject's loop after a member's value: "}" ends the object, "," must be
\* followed by the next key
ObjAfterValue(s, k, value, pairs) ==
    IF ~value.ok THEN DecodeError
    ELSE
    LET ps == SetKey(pairs, k, value.val, 1)
        e == SkipWs(s, value.end)
        nextchar == At(s, e)
        k2 == SkipWs(s, e + 1)
    IN
    IF nextchar = "}" THEN Decoded([t |-> "obj", v |-> ps], e + 1)
    ELSE IF nextchar # "," THEN DecodeError
    ELSE IF At(s, k2) # Q THEN DecodeError
    ELSE ObjMembers(s, k2 + 1, ps)

\* JSONObject's loop after a member's key: ":" and the value
ObjAfterKey(s, key, pairs) ==
    IF ~key.ok THEN DecodeError
    ELSE
    LET c == SkipWs(s, key.end) IN
    IF At(s, c) # ":" THEN DecodeError
    ELSE ObjAfterValue(s, key.val, ScanOnce(s, SkipWs(s, c + 1)), pairs)

\* JSONObject's loop; i is just after the opening quote of a key
ObjMembers(s, i, pairs) == ObjAfterKey(s, ScanString(s, i, <<>>), pairs)

\* JSONObject((s, i), ...), i just after the "{"
JSONObject(s, i) ==
    LET e == SkipWs(s, i)
        nextchar == At(s, e)
    IN
    IF nextchar = "}" THEN Decoded([t |-> "obj", v |-> <<>>], e + 1)
    ELSE IF nextchar # Q THEN DecodeError
    ELSE ObjMembers(s, e + 1, <<>>)

\* JSONArray's loop after an element: "]" ends the array, "," goes on
ArrAfterValue(s, value, values) ==
    IF ~value.ok THEN DecodeError
    ELSE
    LET vs == Append(values, value.val)
        e == SkipWs(s, value.end)
        nextchar == At(s, e)
    IN
    IF nextchar = "]" THEN Decoded([t |-> "arr", v |-> vs], e + 1)
    ELSE IF nextchar # "," THEN DecodeError
    ELSE ArrElems(s, SkipWs(s, e + 1), vs)

\* JSONArray's loop; i is the position of the next element
ArrElems(s, i, values) == ArrAfterValue(s, ScanOnce(s, i), values)

\* JSONArray((s, i), ...), i just after the "["
JSONArray(s, i) ==
    LET e == SkipWs(s, i) IN
    IF At(s, e) = "]" THEN Decoded([t |-> "arr", v |-> <<>>], e + 1)
    ELSE ArrElems(s, e, <<>>)

\* scan_once on a quote: the string, as a value
StringValue(r) ==
    IF r.ok THEN Decoded([t |-> "str", v |-> r.val], r.end) ELSE DecodeError

\* scan_once on a digit: NUMBER_RE's match, e its end
NumberValue(s, i, e) == Decoded([t |-> "num", v |-> Slice(s, i, e)], e)

\* scan_once(s, i): one JSON value starting exactly at i
ScanOnce(s, i) ==
    LET c == At(s, i) IN
    IF c = Q THEN StringValue(ScanString(s, i + 1, <<>>))
    ELSE IF c = "{" THEN JSONObject(s, i + 1)
    ELSE IF c = "[" THEN JSONArray(s, i + 1)
    ELSE IF c \in Digits THEN NumberValue(s, i, NumberEnd(s, i))
    ELSE DecodeError

\* JSONDecoder.raw_decode(s, i)
RawDecode(s, i) == ScanOnce(s, i)

\* JSONDecoder.decode: the value must be followed by whitespace only
WholeText(s, r) ==
    IF r.ok /\ SkipWs(s, r.end) = Len(s) THEN r ELSE DecodeError

\* json.loads(s): one value, whitespace around it, nothing else
JsonLoads(s) == WholeText(s, RawDecode(s, SkipWs(s, 0)))

IsDict(val) == val.t = "obj"

(***************************************************************************)
(* json.dumps(it, ensure_ascii=False, separators=(",", ":"))               *)
(***************************************************************************)
\* faulty variant of EscapeChar: a newline in a string is written raw
EscapeCharRawNewline(c) ==
    IF c = Q THEN <<BS, Q>>
    ELSE IF c = BS THEN <<BS, BS>>
    ELSE <<c>>

\* py_encode_basestring: ESCAPE_DCT over the alphabet
EscapeChar(c) ==
    IF c = Q THEN <<BS, Q>>
    ELSE IF c = BS THEN <<BS, BS>>
    ELSE IF c = NL THEN <<BS, "n">>
    ELSE <<c>>

RECURSIVE EscapeFrom(_, _)
EscapeFrom(s, i) ==
    IF i > Len(s) THEN <<>> ELSE EscapeChar(s[i]) \o EscapeFrom(s, i + 1)

EncodeString(s) == <<Q>> \o EscapeFrom(s, 1) \o <<Q>>

RECURSIVE Dumps(_), DumpPairs(_, _), DumpElems(_, _)

DumpPairs(pairs, i) ==
    IF i > Len(pairs) THEN <<>>
    ELSE (IF i > 1 THEN <<",">> ELSE <<>>)
         \o EncodeString(pairs[i].k) \o <<":">> \o Dumps(pairs[i].val)
         \o DumpPairs(pairs, i + 1)

DumpElems(values, i) ==
    IF i > Len(values) THEN <<>>
    ELSE (IF i > 1 THEN <<",">> ELSE <<>>) \o Dumps(values[i])
         \o DumpElems(values, i + 1)

Dumps(val) ==
    IF val.t = "obj" THEN <<"{">> \o DumpPairs(val.v, 1) \o <<"}">>
    ELSE IF val.t = "arr" THEN <<"[">> \o DumpElems(val.v, 1) \o <<"]">>
    ELSE IF val.t = "str" THEN EncodeString(val.v)
    ELSE val.v

(***************************************************************************)
(* parse_history_objects                                                   *)
(***************************************************************************)
\* os.path.exists(path) is false: no text, told apart from the empty text
Absent == <<"absent">>

\* max_items * 5: the probe looks at the recent portion only
ProbeFactor == 5

RECURSIVE StripAll(_, _)
\* [ln.strip() for ln in text.splitlines() if ln.strip()]
StripAll(ls, i) ==
    IF i > Len(ls) THEN <<>>
    ELSE LET ln == Strip(ls[i]) IN
         (IF ln = <<>> THEN <<>> ELSE <<ln>>) \o StripAll(ls, i + 1)

Lines(t) == StripAll(SplitLines(t), 1)

\* ln.startswith("{") and ln.endswith("}")
Braced(ln) == Len(ln) >= 1 /\ ln[1] = "{" /\ ln[Len(ln)] = "}"

\* faulty variants of Window: only the final line is probed; every line is
\* probed; the oldest lines are probed instead of the recent ones
WindowLastLine(lines, max) == SubSeq(lines, Len(lines), Len(lines))
WindowWholeFile(lines, max) == lines
WindowHead(lines, max) ==
    SubSeq(lines, 1, IF Len(lines) <= max * ProbeFactor THEN Len(lines)
             ELSE max * ProbeFactor)

\* lines[-min(len(lines), max_items * 5):]
Window(lines, max) == TakeLast(lines, Min(Len(lines), max * ProbeFactor))

\* the probe's verdict on a line from what json.loads gave: "append" keeps
\* the object, "break" gives up the fast path ("raise" would be an exception
\* leaving the function)
ProbeVerdict(r) ==
    IF ~r.ok THEN "break"
    ELSE IF IsDict(r.val) THEN "append" ELSE "break"

\* one pass of the probe loop body: [o |-> verdict, val |-> the object]
ProbeLine(ln) ==
    IF ~Braced(ln) THEN [o |-> "break", val |-> <<>>]
    ELSE LET r == JsonLoads(ln) IN [o |-> ProbeVerdict(r), val |-> r.val]

RECURSIVE ProbeFrom(_, _, _)

ProbeNext(w, i, tmp, p) ==
    IF p.o = "append" THEN ProbeFrom(w, i + 1, Append(tmp, p.val))
    ELSE IF p.o = "raise" THEN [jsonl_ok |-> TRUE, tmp |-> tmp, exc |-> TRUE]
    ELSE [jsonl_ok |-> FALSE, tmp |-> tmp, exc |-> FALSE]

\* the probe loop: [jsonl_ok, tmp, exc]
ProbeFrom(w, i, tmp) ==
    IF i > Len(w) THEN [jsonl_ok |-> TRUE, tmp |-> tmp, exc |-> FALSE]
    ELSE ProbeNext(w, i, tmp, ProbeLine(w[i]))

Probe(lines, max) == ProbeFrom(Window(lines, max), 1, <<>>)

\* the re-scan's verdict on a line: "append" | "skip"
RescanVerdict(r) ==
    IF ~r.ok THEN "skip"
    ELSE IF IsDict(r.val) THEN "append" ELSE "skip"

\* one pass of the re-scan loop body
RescanLine(ln) ==
    IF ~Braced(ln) THEN [o |-> "skip", val |-> <<>>]
    ELSE LET r == JsonLoads(ln) IN [o |-> RescanVerdict(r), val |-> r.val]

RECURSIVE RescanFrom(_, _, _)

RescanNext(lines, i, acc, p) ==
    IF p.o = "append" THEN RescanFrom(lines, i + 1, Append(acc, p.val))
    ELSE IF p.o = "raise" THEN [items |-> acc, exc |-> TRUE]
    ELSE RescanFrom(lines, i + 1, acc)

\* the whole-file JSONL load: [items, exc]
RescanFrom(lines, i, acc) ==
    IF i > Len(lines) THEN [items |-> acc, exc |-> FALSE]
    ELSE RescanNext(lines, i, acc, RescanLine(lines[i]))

Rescan(lines) == RescanFrom(lines, 1, <<>>)

RECURSIVE Find(_, _, _)
\* t.find(c, i)
Find(t, c, i) ==
    IF i >= Len(t) THEN -1
    ELSE IF At(t, i) = c THEN i ELSE Find(t, c, i + 1)

\* the locals of the scan loop; starts[k] is where items[k] began in the text
ScanInit == [idx |-> 0, items |-> <<>>, starts |-> <<>>, exc |-> FALSE]

\* while idx < n ... if j == -1: break
ScanDone(t, st) == st.exc \/ st.idx >= Len(t) \/ Find(t, "{", st.idx) = -1

\* faulty variants of AfterFailure: the decode error is not caught; the
\* cursor is put on the "{" again instead of one character past it
AfterFailureRaises(st, j) == [st EXCEPT !.exc = TRUE]
AfterFailureStuck(st, j) == [st EXCEPT !.idx = j]

\* the cursor after a decode failure at j
AfterFailure(st, j) == [st EXCEPT !.idx = j + 1]

\* the loop body after raw_decode at j gave r
ScanDecoded(st, j, r) ==
    IF r.ok
    THEN IF IsDict(r.val)
         THEN [st EXCEPT !.idx = r.end,
                         !.items = Append(st.items, r.val),
                         !.starts = Append(st.starts, j)]
         ELSE [st EXCEPT !.idx = r.end]
    ELSE AfterFailure(st, j)

\* the loop body with the next "{" at j
ScanAt(t, st, j) == ScanDecoded(st, j, RawDecode(t, j))

\* one iteration of the scan loop
ScanStep(t, st) == ScanAt(t, st, Find(t, "{", st.idx))

RECURSIVE ScanLoop(_, _)
ScanLoop(t, st) == IF ScanDone(t, st) THEN st ELSE ScanLoop(t, ScanStep(t, st))

Returned(path, its, sts) == [path |-> path, items |-> its, starts |-> sts]
Raised == Returned("raised", <<>>, <<>>)

\* return items[-max_items:] on the fast path
FastReturn(r, max) ==
    IF r.exc THEN Raised ELSE Returned("jsonl", TakeLast(r.items, max), <<>>)

\* if jsonl_ok and tmp: the whole-file load, else the scan is to run
FastDecide(lines, p, max) ==
    IF p.exc THEN Raised
    ELSE IF p.jsonl_ok /\ p.tmp # <<>> THEN FastReturn(Rescan(lines), max)
    ELSE Returned("scan", <<>>, <<>>)

FastLines(lines, max) == FastDecide(lines, Probe(lines, max), max)

\* what the code does with the stripped, non-empty text before the scan:
\* the fast path's result, or "scan" when the slow path is to run
FastPath(t, max) == FastLines(Lines(t), max)

\* return items[-max_items:] after the scan
SlowReturn(st, max) ==
    IF st.exc THEN Raised
    ELSE Returned("scan", TakeLast(st.items, max),
                  TakeLast(st.starts, max))

SlowPath(t, max) == SlowReturn(ScanLoop(t, ScanInit), max)

\* the slow path runs when the fast path did not return
Dispatch(t, fp, max) == IF fp.path # "scan" THEN fp ELSE SlowPath(t, max)

ParseText(t, max) ==
    IF t = <<>> THEN Returned("empty", <<>>, <<>>)
    ELSE Dispatch(t, FastPath(t, max), max)

\* parse_history_objects(path, max_items), f the content of the file at path
ParseHistory(f, max) ==
    IF f = Absent THEN Returned("absent", <<>>, <<>>)
    ELSE ParseText(Strip(f), max)

(***************************************************************************)
(* to_jsonl_bytes and the JSON envelope                                    *)
(***************************************************************************)
RECURSIVE DumpAll(_, _)
\* [json.dumps(it, ...) for it in items]
DumpAll(its, i) ==
    IF i > Len(its) THEN <<>> ELSE <<Dumps(its[i])>> \o DumpAll(its, i + 1)

RECURSIVE Join(_, _, _)
\* sep.join(ls)
Join(sep, ls, i) ==
    IF i > Len(ls) THEN <<>>
    ELSE (IF i > 1 THEN sep ELSE <<>>) \o ls[i] \o Join(sep, ls, i + 1)

ToJsonlBytes(its) ==
    LET lines == DumpAll(its, 1) IN
    Join(<<NL>>, lines, 1) \o (IF lines # <<>> THEN <<NL>> ELSE <<>>)

\* {"count": len(items), "items": items}
Envelope(its) == [count |-> Len(its), items |-> its]

(***************************************************************************)
(* The history log: chunks written by the producer.                        *)
(***************************************************************************)
MaxChunks == 3
MaxN == 2

Num(d) == [t |-> "num", v |-> d]
Str(c) == [t |-> "str", v |-> c]
Obj1(k, val) == [t |-> "obj", v |-> <<[k |-> <<k>>, val |-> val]>>]
EmptyObj == [t |-> "obj", v |-> <<>>]

A1 == <<"{", Q, "a", Q, ":", "1", "}">>
C1Txt == <<"{", Q, "c", Q, ":", "1", "}">>
C2Txt == <<"{", Q, "c", Q, ":", "2", "}">>

\* records written one per line:
\*   LineA   {"a":1}
\*   LsLine  {"a":"<U+2028>\n"}  (a raw line separator and an escaped newline
\*           in a string)
\*   Block   five lines: {} {} {} {} {"c":2}
RecordChunks == {"LineA", "LsLine", "Block"}
\* complete objects written without the line discipline:
\*   Bare    {"a":1} with no newline after it
\*   Pretty  {"c": 1} printed over three lines
ConcatChunks == {"Bare", "Pretty"}
\* torn final records:
\*   TornNested  {"a":{"c":1}   (the outer object is never closed)
\*   TornString  {"a":"{}       (the string is never closed)
FragmentChunks == {"TornNested", "TornString"}
\* a line of whitespace
BlankChunks == {"Blank"}
\* JSON values that are not objects:
\*   ArrayLine  [{"c":1}]
OtherChunks == {"ArrayLine"}

Chunks == RecordChunks \cup ConcatChunks \cup FragmentChunks \cup BlankChunks
          \cup OtherChunks

ChunkText(c) ==
    CASE c = "LineA" -> A1 \o <<NL>>
      [] c = "LsLine" -> <<"{", Q, "a", Q, ":", Q, LS, BS, "n", Q, "}", NL>>
      [] c = "Block" -> <<"{", "}", NL, "{", "}", NL, "{", "}", NL, "{", "}", NL>>
                        \o C2Txt \o <<NL>>
      [] c = "Bare" -> A1
      [] c = "Pretty" -> <<"{", NL, SP, Q, "c", Q, ":", SP, "1", NL, "}", NL>>
      [] c = "TornNested" -> <<"{", Q, "a", Q, ":">> \o C1Txt
      [] c = "TornString" -> <<"{", Q, "a", Q, ":", Q, "{", "}">>
      [] c = "Blank" -> <<SP, NL>>
      [] c = "ArrayLine" -> <<"[">> \o C1Txt \o <<"]", NL>>

\* the records a chunk holds
ChunkRecords(c) ==
    CASE c = "LineA" -> <<Obj1("a", Num(<<"1">>))>>
      [] c = "LsLine" -> <<Obj1("a", Str(<<LS, NL>>))>>
      [] c = "Block" -> <<EmptyObj, EmptyObj, EmptyObj, EmptyObj,
                          Obj1("c", Num(<<"2">>))>>
      [] c = "Bare" -> <<Obj1("a", Num(<<"1">>))>>
      [] c = "Pretty" -> <<Obj1("c", Num(<<"1">>))>>
      [] OTHER -> <<>>

RECURSIVE LogText(_, _)
LogText(l, i) == IF i > Len(l) THEN <<>> ELSE ChunkText(l[i]) \o LogText(l, i + 1)

RECURSIVE LogRecords(_, _)
LogRecords(l, i) ==
    IF i > Len(l) THEN <<>> ELSE ChunkRecords(l[i]) \o LogRecords(l, i + 1)

RECURSIVE LogsOfLen(_)
LogsOfLen(k) ==
    IF k = 0 THEN {<<>>}
    ELSE {Append(l, c) : l \in LogsOfLen(k - 1), c \in Chunks}

Logs == UNION {LogsOfLen(k) : k \in 0..MaxChunks}

\* n = max(1, min(n, 500)), within the bound
Limits == 1..MaxN

NoResponse ==
    [kind |-> "none", n |-> 0, parsed |-> Returned("none", <<>>, <<>>),
     count |-> 0, items |-> <<>>, body |-> <<>>]

Init ==
    /\ log \in Logs
    /\ file \in {LogText(log, 1)} \cup (IF log = <<>> THEN {Absent} ELSE {})
    /\ resp = NoResponse
    /\ pc = "idle"
    /\ n = 0
    /\ text = <<>>
    /\ idx = 0
    /\ items = <<>>
    /\ starts = <<>>

(***************************************************************************)
(* The HTTP handlers: GET /api/history?n=k and GET /api/history.jsonl?n=k  *)
(***************************************************************************)
JsonResponse(k, p) ==
    [kind |-> "json", n |-> k, parsed |-> p, count |-> Envelope(p.items).count,
     items |-> Envelope(p.items).items, body |-> <<>>]

JsonlResponse(k, p) ==
    [kind |-> "jsonl", n |-> k, parsed |-> p, count |-> 0, items |-> <<>>,
     body |-> ToJsonlBytes(p.items)]

\* A RequestHandler object serves one request: http.server makes one per
\* connection and, speaking HTTP/1.0, closes the connection after the response.
ServeHistoryJson(k) ==
    /\ resp = NoResponse
    /\ resp' = JsonResponse(k, ParseHistory(file, k))
    /\ UNCHANGED <<log, file, pc, n, text, idx, items, starts>>

ServeHistoryJsonl(k) ==
    /\ resp = NoResponse
    /\ resp' = JsonlResponse(k, ParseHistory(file, k))
    /\ UNCHANGED <<log, file, pc, n, text, idx, items, starts>>

Next ==
    \/ \E k \in Limits : ServeHistoryJson(k)
    \/ \E k \in Limits : ServeHistoryJsonl(k)

Spec == Init /\ [][Next]_vars

(***************************************************************************)
(* parse_history_objects stepped through its scan loop.                    *)
(***************************************************************************)
LoopState == [idx |-> idx, items |-> items, starts |-> starts, exc |-> FALSE]

\* parse_history_objects up to "idx = 0": the early returns and the fast path
BeforeScan(t, max) ==
    IF t = <<>> THEN Returned("empty", <<>>, <<>>) ELSE FastPath(t, max)

CallReturn(fp) ==
    /\ pc' = (IF fp.path = "scan" THEN "scan"
              ELSE IF fp.path = "raised" THEN "raised" ELSE "returned")
    /\ items' = fp.items

\* the call up to the scan loop: the early returns, the fast path, idx = 0
Call(k) ==
    /\ pc = "idle"
    /\ n' = k
    /\ text' = (IF file = Absent THEN <<>> ELSE Strip(file))
    /\ CallReturn(BeforeScan(text', k))
    /\ idx' = 0
    /\ starts' = <<>>
    /\ UNCHANGED <<log, file, resp>>

IterateTo(st) ==
    /\ idx' = st.idx
    /\ items' = st.items
    /\ starts' = st.starts
    /\ pc' = IF st.exc THEN "raised" ELSE "scan"

\* one iteration of the while loop
Iterate ==
    /\ pc = "scan"
    /\ ~ScanDone(text, LoopState)
    /\ IterateTo(ScanStep(text, LoopState))
    /\ UNCHANGED <<log, file, resp, n, text>>

\* the loop is left and items[-max_items:] returned
Exit ==
    /\ pc = "scan"
    /\ ScanDone(text, LoopState)
    /\ items' = SlowReturn(LoopState, n).items
    /\ starts' = SlowReturn(LoopState, n).starts
    /\ pc' = "returned"
    /\ UNCHANGED <<log, file, resp, n, text, idx>>

NextScan ==
    \/ \E k \in Limits : Call(k)
    \/ Iterate
    \/ Exit

SpecScan == Init /\ [][NextScan]_vars

(***************************************************************************)
(* Properties of the history reader.                                       *)
(***************************************************************************)
Answered == resp.kind # "none"

AllIn(l, S) == \A i \in 1..Len(l) : l[i] \in S

Has(l, c) == \E i \in 1..Len(l) : l[i] = c

\* the last k elements of s
Suffix(s, k) ==
    LET m == IF Len(s) <= k THEN Len(s) ELSE k IN
    [i \in 1..m |-> s[Len(s) - m + i]]

RECURSIVE IsSubseqFrom(_, _, _, _)
\* a[i..] can be read off b[j..] in order
IsSubseqFrom(a, i, b, j) ==
    IF i > Len(a) THEN TRUE
    ELSE IF j > Len(b) THEN FALSE
    ELSE IF a[i] = b[j] THEN IsSubseqFrom(a, i + 1, b, j + 1)
    ELSE IsSubseqFrom(a, i, b, j + 1)

RECURSIVE NlLinesFrom(_, _, _, _)
\* a text cut at each "\n"
NlLinesFrom(b, i, cur, acc) ==
    IF i > Len(b) THEN (IF cur = <<>> THEN acc ELSE Append(acc, cur))
    ELSE IF b[i] = NL THEN NlLinesFrom(b, i + 1, <<>>, Append(acc, cur))
    ELSE NlLinesFrom(b, i + 1, Append(cur, b[i]), acc)

NlLines(b) == NlLinesFrom(b, 1, <<>>, <<>>)

\* the records of the log, oldest first
Records == LogRecords(log, 1)

\* the non-empty trimmed lines of the file that was parsed
FileLines == IF file = Absent THEN <<>> ELSE Lines(Strip(file))

\* a line the fast path takes for a record
CleanLine(ln) ==
    Braced(ln) /\ LET r == JsonLoads(ln) IN r.ok /\ IsDict(r.val)

\* C1: a log of K records written one per line, blank lines allowed between
\* them, is answered with its last min(K, maxItems) records in file order.
C1_LastRecordsOfLineLog ==
    (Answered /\ AllIn(log, RecordChunks \cup BlankChunks)) =>
        LET K == Len(Records)
            m == IF K <= resp.n THEN K ELSE resp.n
        IN  /\ Len(resp.parsed.items) = m
            /\ \A i \in 1..m : resp.parsed.items[i] = Records[K - m + i]

C1_Witness ==
    /\ Answered
    /\ AllIn(log, RecordChunks \cup BlankChunks)
    /\ Has(log, "Blank")
    /\ Len(Records) > resp.n
    /\ resp.parsed.path = "jsonl"
    /\ Len(resp.parsed.items) = resp.n

\* C2: a log of K complete objects with only whitespace between them (on one
\* line, on a line each, or printed over several lines) is answered with all
\* K objects in order when maxItems >= K.
C2_ConcatenatedAllRecovered ==
    (/\ Answered
     /\ AllIn(log, RecordChunks \cup ConcatChunks \cup BlankChunks)
     /\ Len(Records) <= resp.n) =>
        resp.parsed.items = Records

C2_Witness ==
    /\ Answered
    /\ Has(log, "Pretty")
    /\ Has(log, "Bare")
    /\ AllIn(log, RecordChunks \cup ConcatChunks \cup BlankChunks)
    /\ Len(Records) = 2
    /\ resp.parsed.path = "scan"
    /\ resp.parsed.items = Records

\* C3: a torn fragment after the last of K complete objects does not change
\* the answer for maxItems <= K: it is the answer for the log without it.
C3_FragmentDropped ==
    (/\ Answered
     /\ Len(log) >= 2
     /\ log[Len(log)] \in FragmentChunks
     /\ AllIn(SubSeq(log, 1, Len(log) - 1),
              RecordChunks \cup ConcatChunks \cup BlankChunks)
     /\ resp.n <= Len(Records)) =>
        resp.parsed.items =
            ParseHistory(LogText(SubSeq(log, 1, Len(log) - 1), 1), resp.n).items

\* C4: the answer is at most maxItems long and is read off the records of
\* the file in order: no returned object comes from inside an array, from
\* inside a record or from a torn fragment.
C4_OnlyTopLevelRecords ==
    Answered =>
        /\ Len(resp.parsed.items) <= resp.n
        /\ IsSubseqFrom(resp.parsed.items, 1, Records, 1)

\* C5: every request is answered with a list, whatever the file holds; the
\* list is empty when the file is absent, empty or all whitespace.
C5_NoErrorOutcome ==
    Answered =>
        /\ resp.parsed.path \in {"absent", "empty", "jsonl", "scan"}
        /\ AllIn(log, BlankChunks) =>
              /\ resp.parsed.items = <<>>
              /\ resp.kind = "json" => resp.count = 0 /\ resp.items = <<>>
              /\ resp.kind = "jsonl" => resp.body = <<>>

C5_Witness ==
    /\ Answered
    /\ Len(log) >= 2
    /\ log[Len(log)] \in FragmentChunks
    /\ resp.parsed.path = "scan"
    /\ resp.parsed.items # <<>>

\* C6: the answer R written out by to_jsonl_bytes and parsed again with a
\* limit >= Len(R) is taken by the line-delimited fast path (R not empty)
\* and gives R again.
C6_RoundTrip ==
    resp.kind = "jsonl" =>
        \A m \in Limits :
            m >= Len(resp.parsed.items) =>
                /\ resp.parsed.items # <<>> =>
                      ParseHistory(resp.body, m).path = "jsonl"
                /\ ParseHistory(resp.body, m).items = resp.parsed.items

\* C7: the JSONL download holds one "\n"-terminated line per returned
\* record, in order, each line the record's JSON text, and is empty for an
\* empty list; the JSON envelope holds the returned records in order with
\* count their number, at most maxItems.
C7_AdaptersPreserveItems ==
    /\ resp.kind = "jsonl" =>
          LET ls == NlLines(resp.body) IN
          /\ Len(ls) = Len(resp.parsed.items)
          /\ \A k \in 1..Len(resp.parsed.items) :
                k <= Len(ls) =>
                    LET r == JsonLoads(ls[k]) IN
                    r.ok /\ r.val = resp.parsed.items[k]
          /\ (resp.body = <<>>) <=> (resp.parsed.items = <<>>)
          /\ resp.body # <<>> => resp.body[Len(resp.body)] = NL
    /\ resp.kind = "json" =>
          /\ resp.count = Len(resp.items)
          /\ resp.items = resp.parsed.items
          /\ resp.count <= resp.n

C7_Witness ==
    /\ resp.kind = "jsonl"
    /\ Len(resp.parsed.items) >= 2
    /\ \E k \in 1..Len(resp.parsed.items) :
          resp.parsed.items[k] = Obj1("a", Str(<<LS, NL>>))

\* C8: with L non-empty trimmed lines, the answer is the line-delimited one
\* iff each of the last min(L, 5 * maxItems) lines is a braced line that
\* parses as an object, and the answer of the left-to-right scan otherwise; a
\* line before that window never decides.
C8_FormatDispatch ==
    (Answered /\ FileLines # <<>>) =>
        LET ls == FileLines
            clean == \A i \in 1..Len(ls) :
                        i > Len(ls) - ProbeFactor * resp.n => CleanLine(ls[i])
        IN  IF clean
            THEN /\ resp.parsed.path = "jsonl"
                 /\ resp.parsed.items = Suffix(Rescan(ls).items, resp.n)
            ELSE /\ resp.parsed.path = "scan"
                 /\ resp.parsed.items =
                       Suffix(ScanLoop(Strip(file), ScanInit).items, resp.n)

C8_Witness ==
    /\ Answered
    /\ resp.parsed.path = "jsonl"
    /\ Len(FileLines) > ProbeFactor * resp.n
    /\ ~CleanLine(FileLines[1])

\* C10: when the fast path is taken, the answer is the last maxItems objects
\* of the probe window alone; the lines before the window do not change it.
C10_WindowDecidesResult ==
    (Answered /\ resp.parsed.path = "jsonl") =>
        resp.parsed.items = Suffix(Probe(FileLines, resp.n).tmp, resp.n)

C10_Witness ==
    /\ Answered
    /\ resp.parsed.path = "jsonl"
    /\ Len(FileLines) > ProbeFactor * resp.n
    /\ log[1] \in {"Bare", "ArrayLine", "TornNested"}
    /\ Len(resp.parsed.items) = resp.n

\* C9: the scan always comes to its end.  The cursor never passes the end of
\* the text; in every state of the loop either the loop is left or the next
\* iteration moves the cursor forward; each iteration taken moves it past the
\* object decoded at the next "{", or exactly one character past that "{"
\* when it does not decode; and the loop is left only with no "{" at or
\* after the cursor or with the cursor at the end.  Len(text) - idx is thus a
\* variant of the loop.
C9_ScanTerminates ==
    /\ [](pc = "scan" =>
            /\ idx <= Len(text)
            /\ \/ ScanDone(text, LoopState)
               \/ ScanStep(text, LoopState).idx > idx)
    /\ [][(pc = "scan" /\ pc' = "scan") =>
            /\ idx' > idx
            /\ \E j \in idx..(Len(text) - 1) :
                  /\ At(text, j) = "{"
                  /\ \A i \in idx..(j - 1) : At(text, i) # "{"
                  /\ \/ items' = items /\ idx' = j + 1
                     \/ /\ Len(items') = Len(items) + 1
                        /\ idx' > j + 1
                        /\ idx' <= Len(text)]_vars
    /\ [][(pc = "scan" /\ pc' # "scan") =>
            /\ pc' = "returned"
            /\ \/ idx >= Len(text)
               \/ \A i \in idx..(Len(text) - 1) : At(text, i) # "{"]_vars

C9_Witness ==
    /\ pc = "returned"
    /\ Len(log) >= 2
    /\ log[Len(log)] \in FragmentChunks
    /\ idx = Len(text)
    /\ items # <<>>

====
